---- MODULE Spec2Model ----
(***************************************************************************)
(* A model of the JSON lexer of                                            *)
(* content/articles/2021-07-14-implementing-a-json-lexer-in-rust/code/src. *)
(*                                                                         *)
(* A character is a one-character string, a text is a sequence of          *)
(* characters.  The Peekable<Chars> the Lexer owns is the sequence of the  *)
(* characters it has not consumed yet: source.next() takes the head,       *)
(* source.peek() looks at it.                                              *)
(***************************************************************************)
EXTENDS Integers, Sequences, FiniteSets, TLC

VARIABLES
    input,      \* the text given to Lexer::from / lex
    source,     \* Lexer.source: the characters not consumed yet
    items,      \* the items next() has returned so far, in order
    prev,       \* history: Lexer.source when the last next() call started
    ended,      \* next() has returned None
    panicked,   \* a call has panicked instead of returning
    lexed       \* <<what lex(input) returned>>, NotCalled before the call

vars == <<input, source, items, prev, ended, panicked, lexed>>

(***************************************************************************)
(* Character classes (char::is_ascii_digit and friends).                   *)
(***************************************************************************)
DigitChars == <<"0", "1", "2", "3", "4", "5", "6", "7", "8", "9">>

AsciiDigits == {DigitChars[i] : i \in 1..10}

is_ascii_digit(c) == c \in AsciiDigits

DigitValue(c) == (CHOOSE i \in 1..10 : DigitChars[i] = c) - 1

LowerChars == {"a", "b", "c", "d", "e", "f", "g", "h", "i", "j", "k", "l", "m",
               "n", "o", "p", "q", "r", "s", "t", "u", "v", "w", "x", "y", "z"}

UpperChars == {"A", "B", "C", "D", "E", "F", "G", "H", "I", "J", "K", "L", "M",
               "N", "O", "P", "Q", "R", "S", "T", "U", "V", "W", "X", "Y", "Z"}

AsciiAlphabetic == LowerChars \cup UpperChars

is_ascii_alphabetic(c) == c \in AsciiAlphabetic

is_ascii_whitespace_but_tab(c) == c \in {" ", "\n", "\f", "\r"}

is_ascii_whitespace(c) == c \in {" ", "\t", "\n", "\f", "\r"}

(***************************************************************************)
(* Tokens, errors and items.  Option<T> and Result<T, _> of a scalar are   *)
(* sequences of length 0 (None / Err) or 1 (Some / Ok).                    *)
(***************************************************************************)
Open == "Open"
Close == "Close"

JSONNumber(m, e) == [mantissa |-> m, exponent |-> e]

\* every token has every field, so that any two tokens can be compared;
\* the fields a variant does not carry hold these defaults
Blank == [kind |-> "", paren |-> "", bool |-> FALSE,
          number |-> [mantissa |-> [num |-> 0, scale |-> 0], exponent |-> <<>>],
          string |-> <<>>]

Bracket(p) == [Blank EXCEPT !.kind = "Bracket", !.paren = p]
CurlyBracket(p) == [Blank EXCEPT !.kind = "CurlyBracket", !.paren = p]
ElementDelimiter == [Blank EXCEPT !.kind = "ElementDelimiter"]
KeyDelimiter == [Blank EXCEPT !.kind = "KeyDelimiter"]
Null == [Blank EXCEPT !.kind = "Null"]
Boolean(b) == [Blank EXCEPT !.kind = "Boolean", !.bool = b]
Number(n) == [Blank EXCEPT !.kind = "Number", !.number = n]
String(s) == [Blank EXCEPT !.kind = "String", !.string = s]

UnexpectedEOF == "UnexpectedEOF"
UnknownChar == "UnknownChar"
UnkownKeyword == "UnkownKeyword"
UnclosedString == "UnclosedString"
InvalidNumberFormat == "InvalidNumberFormat"
InvalidExponentFormat == "InvalidExponentFormat"

\* Result<Token>
Ok(t) == [ok |-> TRUE, err |-> "", val |-> t]
Err(e) == [ok |-> FALSE, err |-> e, val |-> Blank]

\* Result<Vec<Token>>
OkVec(v) == [ok |-> TRUE, err |-> "", val |-> v]
ErrVec(e) == [ok |-> FALSE, err |-> e, val |-> <<>>]

None == <<>>
Some(x) == <<x>>

(***************************************************************************)
(* Lexer::read_while: moves characters from the front of the source to the *)
(* result while the predicate accepts the lookahead.  A predicate is a     *)
(* closure over characters; it is given by the characters it names and     *)
(* whether it accepts exactly those (AnyOf) or every other one (NoneOf).   *)
(* peek and source_next are Peekable::peek and Peekable::next; the loop    *)
(* unwraps what source_next yields, which panics on None: panic records    *)
(* that.                                                                   *)
(***************************************************************************)
AnyOf(chars) == [chars |-> chars, negate |-> FALSE]

NoneOf(chars) == [chars |-> chars, negate |-> TRUE]

Holds(predicate, c) == (c \in predicate.chars) # predicate.negate

peek(src) == IF src = <<>> THEN None ELSE Some(Head(src))

source_next(src) ==
    IF src = <<>> THEN [item |-> None, source |-> src]
    ELSE [item |-> Some(Head(src)), source |-> Tail(src)]

RECURSIVE read_while_advancing_twice(_, _)
read_while_advancing_twice(predicate, src) ==
    IF peek(src) # None /\ Holds(predicate, peek(src)[1])
    THEN LET taken == source_next(source_next(src).source)
         IN  IF taken.item = None
             THEN [res |-> <<>>, source |-> taken.source, panic |-> TRUE]
             ELSE LET more == read_while_advancing_twice(predicate, taken.source)
                  IN  [res |-> <<taken.item[1]>> \o more.res,
                       source |-> more.source, panic |-> more.panic]
    ELSE [res |-> <<>>, source |-> src, panic |-> FALSE]

RECURSIVE read_while_taking_terminator(_, _)
read_while_taking_terminator(predicate, src) ==
    LET taken == source_next(src)
    IN  IF taken.item # None /\ Holds(predicate, taken.item[1])
        THEN LET more == read_while_taking_terminator(predicate, taken.source)
             IN  [res |-> <<taken.item[1]>> \o more.res,
                  source |-> more.source, panic |-> more.panic]
        ELSE [res |-> <<>>, source |-> taken.source, panic |-> FALSE]

RECURSIVE read_while(_, _)
read_while(predicate, src) ==
    IF peek(src) # None /\ Holds(predicate, peek(src)[1])
    THEN LET taken == source_next(src)
         IN  IF taken.item = None
             THEN [res |-> <<>>, source |-> taken.source, panic |-> TRUE]
             ELSE LET more == read_while(predicate, taken.source)
                  IN  [res |-> <<taken.item[1]>> \o more.res,
                       source |-> more.source, panic |-> more.panic]
    ELSE [res |-> <<>>, source |-> src, panic |-> FALSE]

(***************************************************************************)
(* str::parse::<f64> on a mantissa text.  The text is a lead character     *)
(* (a digit or '-') followed by digits and '.', so of the f64 grammar only *)
(* [sign] digits* ['.' digits*] with at least one digit is reachable; any  *)
(* other character makes the text invalid here.  The value is kept exact:  *)
(* num / 10^scale in lowest terms of ten, which identifies two texts       *)
(* exactly when their f64 values are equal for the lengths modelled        *)
(* (fewer than 16 significant digits); -0.0 == 0.0 as for f64.             *)
(***************************************************************************)
RECURSIVE DigitsValue(_, _)
DigitsValue(acc, ds) ==
    IF ds = <<>> THEN acc
    ELSE DigitsValue(acc * 10 + DigitValue(Head(ds)), Tail(ds))

RECURSIVE Normalise(_, _)
Normalise(num, scale) ==
    IF scale > 0 /\ num % 10 = 0 THEN Normalise(num \div 10, scale - 1)
    ELSE [num |-> num, scale |-> scale]

IsFloatTextManyPoints(body) ==
    /\ \A i \in 1..Len(body) : is_ascii_digit(body[i]) \/ body[i] = "."
    /\ \E i \in 1..Len(body) : is_ascii_digit(body[i])

IsFloatText(body) ==
    /\ \A i \in 1..Len(body) : is_ascii_digit(body[i]) \/ body[i] = "."
    /\ Cardinality({i \in 1..Len(body) : body[i] = "."}) <= 1
    /\ \E i \in 1..Len(body) : is_ascii_digit(body[i])

parse_f64(text) ==
    LET neg == text # <<>> /\ Head(text) = "-"
        pos == text # <<>> /\ Head(text) = "+"
        body == IF neg \/ pos THEN Tail(text) ELSE text
    IN  IF ~IsFloatText(body) THEN None
        ELSE LET digits == SelectSeq(body, is_ascii_digit)
                 dot == {i \in 1..Len(body) : body[i] = "."}
                 scale == IF dot = {} THEN 0
                          ELSE Len(body) - (CHOOSE i \in dot : TRUE)
                 mag == Normalise(DigitsValue(0, digits), scale)
             IN  Some([num |-> IF neg THEN 0 - mag.num ELSE mag.num,
                       scale |-> mag.scale])

(***************************************************************************)
(* str::parse::<i16>: an optional single sign, then one or more digits,    *)
(* accumulated with checked_mul(10) and checked_add / checked_sub.         *)
(***************************************************************************)
I16Min == -32768
I16Max == 32767

RECURSIVE AccumulateI16UncheckedAdd(_, _, _)
AccumulateI16UncheckedAdd(acc, ds, positive) ==
    IF ds = <<>> THEN Some(acc)
    ELSE IF ~is_ascii_digit(Head(ds)) THEN None
    ELSE LET mul == acc * 10
             nxt == IF positive THEN mul + DigitValue(Head(ds))
                    ELSE mul - DigitValue(Head(ds))
         IN  IF mul < I16Min \/ mul > I16Max THEN None
             ELSE AccumulateI16UncheckedAdd(nxt, Tail(ds), positive)

RECURSIVE AccumulateI16(_, _, _)
AccumulateI16(acc, ds, positive) ==
    IF ds = <<>> THEN Some(acc)
    ELSE IF ~is_ascii_digit(Head(ds)) THEN None
    ELSE LET mul == acc * 10
             nxt == IF positive THEN mul + DigitValue(Head(ds))
                    ELSE mul - DigitValue(Head(ds))
         IN  IF mul < I16Min \/ mul > I16Max THEN None
             ELSE IF nxt < I16Min \/ nxt > I16Max THEN None
             ELSE AccumulateI16(nxt, Tail(ds), positive)

parse_i16_no_plus(text) ==
    IF text = <<>> THEN None
    ELSE IF Len(text) = 1 /\ Head(text) \in {"+", "-"} THEN None
    ELSE IF Head(text) = "-" THEN AccumulateI16(0, Tail(text), FALSE)
    ELSE AccumulateI16(0, text, TRUE)

parse_i16(text) ==
    IF text = <<>> THEN None
    ELSE IF Len(text) = 1 /\ Head(text) \in {"+", "-"} THEN None
    ELSE IF Head(text) = "+" THEN AccumulateI16(0, Tail(text), TRUE)
    ELSE IF Head(text) = "-" THEN AccumulateI16(0, Tail(text), FALSE)
    ELSE AccumulateI16(0, text, TRUE)

(***************************************************************************)
(* The arms of the match in Lexer::next.  Each takes the source after the  *)
(* lead character c was consumed and yields the item and the source left,  *)
(* or a panic.                                                             *)
(***************************************************************************)
Return(item, src) == [item |-> item, source |-> src, panic |-> FALSE]

Panic(src) == [item |-> Err(""), source |-> src, panic |-> TRUE]

IsStructural(c) == c \in {"[", "]", "{", "}", ",", ":"}

StructuralTokenCurlyAsSquare(c) ==
    CASE c = "[" -> Bracket(Open)
      [] c = "]" -> Bracket(Close)
      [] c = "{" -> Bracket(Open)
      [] c = "}" -> CurlyBracket(Close)
      [] c = "," -> ElementDelimiter
      [] c = ":" -> KeyDelimiter

StructuralToken(c) ==
    CASE c = "[" -> Bracket(Open)
      [] c = "]" -> Bracket(Close)
      [] c = "{" -> CurlyBracket(Open)
      [] c = "}" -> CurlyBracket(Close)
      [] c = "," -> ElementDelimiter
      [] c = ":" -> KeyDelimiter

NotQuoteNorBackslash == NoneOf({"\"", "\\"})

NotQuote == NoneOf({"\""})

scan_string_unexpected_eof(src) ==
    LET string == read_while(NotQuote, src)
    IN  IF string.panic THEN Panic(string.source)
        ELSE IF string.source # <<>> /\ Head(string.source) = "\""
        THEN Return(Ok(String(string.res)), Tail(string.source))
        ELSE IF string.source = <<>>
        THEN Return(Err(UnexpectedEOF), <<>>)
        ELSE Return(Err(UnclosedString), Tail(string.source))

scan_string(src) ==
    LET string == read_while(NotQuote, src)
    IN  IF string.panic THEN Panic(string.source)
        ELSE IF string.source # <<>> /\ Head(string.source) = "\""
        THEN Return(Ok(String(string.res)), Tail(string.source))
        ELSE Return(Err(UnclosedString),
                    IF string.source = <<>> THEN <<>> ELSE Tail(string.source))

IsNumberLead(c) == is_ascii_digit(c) \/ c = "-" \/ c = "+"

EarlyReject(c, src) ==
    CASE c = "0" -> src # <<>> /\ is_ascii_digit(Head(src))
      [] c = "+" -> TRUE
      [] OTHER -> FALSE

NotResyncButCurly == NoneOf({",", "]"})

NotResync == NoneOf({",", "]", "}"})

IsMantissaChar == AnyOf(AsciiDigits \cup {"."})

IsExponentChar == AnyOf(AsciiDigits \cup {"+", "-"})

IsExponentMarker(src) == src # <<>> /\ Head(src) \in {"e", "E"}

IsBadExponentButMinus(exp) == exp = <<"+">> \/ exp = <<>>

IsBadExponent(exp) == exp = <<"+">> \/ exp = <<"-">> \/ exp = <<>>

scan_number(c, src) ==
    IF EarlyReject(c, src)
    THEN LET drained == read_while(NotResync, src)
         IN  IF drained.panic THEN Panic(drained.source)
             ELSE Return(Err(InvalidNumberFormat), drained.source)
    ELSE
      LET rest == read_while(IsMantissaChar, src)
          mantissa == <<c>> \o rest.res
          marker == IsExponentMarker(rest.source)
          exp == IF marker THEN read_while(IsExponentChar, Tail(rest.source))
                 ELSE [res |-> <<>>, source |-> rest.source, panic |-> FALSE]
          parsed_mantissa == parse_f64(mantissa)
          parsed_exponent == parse_i16(exp.res)
      IN  IF rest.panic \/ exp.panic THEN Panic(exp.source)
          ELSE IF marker /\ IsBadExponent(exp.res)
          THEN Return(Err(InvalidExponentFormat), exp.source)
          ELSE IF parsed_mantissa = None
          THEN Return(Err(InvalidNumberFormat), exp.source)
          ELSE IF marker /\ parsed_exponent = None
          THEN Return(Err(InvalidNumberFormat), exp.source)
          ELSE Return(Ok(Number(JSONNumber(parsed_mantissa[1],
                            IF marker THEN parsed_exponent ELSE None))),
                      exp.source)

StartsWith(t, p) == Len(t) >= Len(p) /\ SubSeq(t, 1, Len(p)) = p

MatchKeywordPrefix(keyword) ==
    CASE StartsWith(keyword, <<"t", "r", "u", "e">>) -> Ok(Boolean(TRUE))
      [] StartsWith(keyword, <<"f", "a", "l", "s", "e">>) -> Ok(Boolean(FALSE))
      [] StartsWith(keyword, <<"n", "u", "l", "l">>) -> Ok(Null)
      [] OTHER -> Err(UnkownKeyword)

MatchKeyword(keyword) ==
    CASE keyword = <<"t", "r", "u", "e">> -> Ok(Boolean(TRUE))
      [] keyword = <<"f", "a", "l", "s", "e">> -> Ok(Boolean(FALSE))
      [] keyword = <<"n", "u", "l", "l">> -> Ok(Null)
      [] OTHER -> Err(UnkownKeyword)

scan_keyword_resync(c, src) ==
    LET rest == read_while(AnyOf(AsciiAlphabetic), src)
        item == MatchKeyword(<<c>> \o rest.res)
    IN  IF rest.panic THEN Panic(rest.source)
        ELSE IF item.ok THEN Return(item, rest.source)
        ELSE Return(item, read_while(NotResync, rest.source).source)

scan_keyword(c, src) ==
    LET rest == read_while(AnyOf(AsciiAlphabetic), src)
    IN  IF rest.panic THEN Panic(rest.source)
        ELSE Return(MatchKeyword(<<c>> \o rest.res), rest.source)

(***************************************************************************)
(* Lexer::next.  item is None at the end of the input, Some(item)          *)
(* otherwise; it means nothing when panic is set.  The whitespace arm is   *)
(* the recursive call.                                                     *)
(***************************************************************************)
RECURSIVE next_unknown_not_consumed(_)
next_unknown_not_consumed(src) ==
    IF src = <<>> THEN Return(None, src)
    ELSE LET c == Head(src)
             rest == Tail(src)
             Arm(r) == [item |-> Some(r.item), source |-> r.source,
                        panic |-> r.panic]
         IN  CASE IsStructural(c) -> Return(Some(Ok(StructuralToken(c))), rest)
               [] c = "\"" -> Arm(scan_string(rest))
               [] is_ascii_whitespace(c) -> next_unknown_not_consumed(rest)
               [] IsNumberLead(c) -> Arm(scan_number(c, rest))
               [] is_ascii_alphabetic(c) -> Arm(scan_keyword(c, rest))
               [] OTHER -> Return(Some(Err(UnknownChar)), src)

RECURSIVE next(_)
next(src) ==
    IF src = <<>> THEN Return(None, src)
    ELSE LET c == Head(src)
             rest == Tail(src)
             Arm(r) == [item |-> Some(r.item), source |-> r.source,
                        panic |-> r.panic]
         IN  CASE IsStructural(c) -> Return(Some(Ok(StructuralToken(c))), rest)
               [] c = "\"" -> Arm(scan_string(rest))
               [] is_ascii_whitespace(c) -> next(rest)
               [] IsNumberLead(c) -> Arm(scan_number(c, rest))
               [] is_ascii_alphabetic(c) -> Arm(scan_keyword(c, rest))
               [] OTHER -> Return(Some(Err(UnknownChar)), rest)

(***************************************************************************)
(* lex: Lexer::from(source.chars()).collect() into Result<Vec<Token>>.     *)
(* Collecting into a Result pulls items until the first Err or the end.    *)
(* result is what lex returns; calls counts the items it pulled from the   *)
(* Lexer; panic is set, and result means nothing, when a next() call of    *)
(* the collection panicked.                                                *)
(***************************************************************************)
RECURSIVE collect_last_error(_, _, _)
collect_last_error(src, acc, calls) ==
    LET r == next(src)
    IN  IF r.panic
        THEN [result |-> ErrVec(""), calls |-> calls, panic |-> TRUE]
        ELSE IF r.item = None
        THEN [result |-> OkVec(acc), calls |-> calls, panic |-> FALSE]
        ELSE IF ~r.item[1].ok /\ next(r.source).item = None
        THEN [result |-> ErrVec(r.item[1].err), calls |-> calls + 1,
              panic |-> FALSE]
        ELSE IF ~r.item[1].ok
        THEN collect_last_error(r.source, acc, calls + 1)
        ELSE collect_last_error(r.source, Append(acc, r.item[1].val), calls + 1)

RECURSIVE collect(_, _, _)
collect(src, acc, calls) ==
    LET r == next(src)
    IN  IF r.panic
        THEN [result |-> ErrVec(""), calls |-> calls, panic |-> TRUE]
        ELSE IF r.item = None
        THEN [result |-> OkVec(acc), calls |-> calls, panic |-> FALSE]
        ELSE IF ~r.item[1].ok
        THEN [result |-> ErrVec(r.item[1].err), calls |-> calls + 1,
              panic |-> FALSE]
        ELSE collect(r.source, Append(acc, r.item[1].val), calls + 1)

lex(text) == collect(text, <<>>, 0)

(***************************************************************************)
(* Inputs.  Four families: every text over a small alphabet, every text of *)
(* brackets, number literals with an exponent, and misspelt keywords.      *)
(***************************************************************************)
MaxLen == 3
MaxStruct == 4
MaxRun == 3
MaxPad == 2
MaxWs == 1

Alphabet == {"[", "]", "}", ",", ":", "\"", "\\", " ",
             "0", "1", "-", "+", ".", "e", "?"}

RECURSIVE Texts(_, _)
Texts(chars, n) ==
    IF n = 0 THEN {<<>>}
    ELSE LET shorter == Texts(chars, n - 1)
         IN  shorter \cup {Append(t, c) : t \in shorter, c \in chars}

FreeInputs == Texts(Alphabet, MaxLen)

BracketChars == {"[", "]", "{", "}"}

BracketInputs == Texts(BracketChars, MaxStruct)

RECURSIVE Digits(_)
Digits(v) ==
    IF v < 10 THEN <<DigitChars[v + 1]>>
    ELSE Append(Digits(v \div 10), DigitChars[(v % 10) + 1])

Zeros(k) == [i \in 1..k |-> "0"]

Mantissas == {<<"4">>, <<"-", "2", ".", "5">>, <<"0">>}

Markers == {"e", "E"}

Signs == {<<>>, <<"+">>, <<"-">>}

EdgeValues == {0, 7, 32767, 32768, 32769, 99999}

ExponentRuns ==
    Texts({"+", "-", "0", "1", "9"}, MaxRun)
        \cup {sg \o Zeros(k) \o Digits(v) :
                  sg \in Signs, k \in 0..MaxPad, v \in EdgeValues}

NumberTails == {<<>>, <<",", "1">>}

NumberInputs ==
    {m \o <<mk>> \o run \o tl :
        m \in Mantissas, mk \in Markers, run \in ExponentRuns,
        tl \in NumberTails}

Keywords == {<<"t", "r", "u", "e">>, <<"f", "a", "l", "s", "e">>,
             <<"n", "u", "l", "l">>}

NoiseChars == {"e", "l", "T", "x"}

Without(t, i) == SubSeq(t, 1, i - 1) \o SubSeq(t, i + 1, Len(t))

Insert(t, p, w) == SubSeq(t, 1, p) \o w \o SubSeq(t, p + 1, Len(t))

Swapped(t, i) == [j \in 1..Len(t) |->
                    IF j = i THEN t[i + 1] ELSE IF j = i + 1 THEN t[i] ELSE t[j]]

Candidates ==
    UNION {{kw} \cup {SubSeq(kw, 1, n) : n \in 1..Len(kw)}
                \cup {Without(kw, i) : i \in 1..Len(kw)}
                \cup {Swapped(kw, i) : i \in 1..(Len(kw) - 1)}
                \cup {Insert(kw, p, <<c>>) : p \in 0..Len(kw), c \in NoiseChars}
                \cup {[kw EXCEPT ![i] = c] : i \in 1..Len(kw), c \in NoiseChars}
           : kw \in Keywords}

KeywordTails == {<<>>, <<",">>, <<" ", "x">>, <<"1">>}

KeywordInputs == {k \o tl : k \in Candidates, tl \in KeywordTails}

Inputs == FreeInputs \cup BracketInputs \cup NumberInputs \cup KeywordInputs

NotCalled == <<>>

(***************************************************************************)
(* The state machine: a Lexer over an input, next() called repeatedly,     *)
(* and the whole-input entry point lex.                                    *)
(***************************************************************************)
Init ==
    /\ input \in Inputs
    /\ source = input
    /\ items = <<>>
    /\ prev = input
    /\ ended = FALSE
    /\ panicked = FALSE
    /\ lexed = NotCalled

RECURSIVE SkipWhitespace(_)
SkipWhitespace(src) ==
    IF src # <<>> /\ is_ascii_whitespace(Head(src))
    THEN SkipWhitespace(Tail(src))
    ELSE src

HasLead == SkipWhitespace(source) # <<>>

Lead == Head(SkipWhitespace(source))

Produce ==
    LET r == next(source)
    IN  /\ ~panicked
        /\ source' = r.source
        /\ items' = IF r.panic THEN items ELSE Append(items, r.item[1])
        /\ panicked' = r.panic
        /\ prev' = source
        /\ UNCHANGED <<input, ended, lexed>>

NextStructural == HasLead /\ IsStructural(Lead) /\ Produce

NextString == HasLead /\ Lead = "\"" /\ Produce

NextNumber == HasLead /\ IsNumberLead(Lead) /\ Produce

NextKeyword == HasLead /\ is_ascii_alphabetic(Lead) /\ Produce

NextUnknownChar ==
    /\ HasLead
    /\ ~IsStructural(Lead) /\ Lead # "\"" /\ ~IsNumberLead(Lead)
    /\ ~is_ascii_alphabetic(Lead)
    /\ Produce

NextEnd ==
    /\ ~panicked
    /\ ~HasLead
    /\ source' = next(source).source
    /\ prev' = source
    /\ ended' = TRUE
    /\ UNCHANGED <<input, items, panicked, lexed>>

LexCall ==
    /\ ~panicked
    /\ lexed = NotCalled
    /\ lexed' = <<lex(input)>>
    /\ panicked' = lex(input).panic
    /\ UNCHANGED <<input, source, items, prev, ended>>

Next ==
    \/ NextStructural
    \/ NextString
    \/ NextNumber
    \/ NextKeyword
    \/ NextUnknownChar
    \/ NextEnd
    \/ LexCall

Spec == Init /\ [][Next]_vars

(***************************************************************************)
(* Vocabulary of the properties.  These definitions restate what the       *)
(* properties say in terms of the input text alone; none of them uses the  *)
(* operators that model the code.                                          *)
(***************************************************************************)
Returned == items # <<>> /\ ~ended      \* the last call returned LastItem

LastItem == items[Len(items)]

Position == Len(input) - Len(source)    \* characters consumed so far

Min(S) == CHOOSE x \in S : \A y \in S : x <= y

\* the length of the longest prefix of t made of characters of class
Span(class, t) ==
    IF \A i \in 1..Len(t) : t[i] \in class THEN Len(t)
    ELSE Min({i \in 1..Len(t) : t[i] \notin class}) - 1

\* the length of the longest prefix of t with no character of stops
Until(stops, t) ==
    IF \A i \in 1..Len(t) : t[i] \notin stops THEN Len(t)
    ELSE Min({i \in 1..Len(t) : t[i] \in stops}) - 1

From(t, n) == SubSeq(t, n, Len(t))      \* t without its first n - 1 characters

SpaceChars == {" ", "\t", "\n", "\f", "\r"}

DigitSet == {"0", "1", "2", "3", "4", "5", "6", "7", "8", "9"}

Started == From(prev, Span(SpaceChars, prev) + 1)   \* prev from its lead on

LeadChar == Head(Started)

AfterLead == Tail(Started)

(***************************************************************************)
(* C1.  When next() reads a lead character that is '+', or that is '0'     *)
(* with an ASCII digit as lookahead, it returns InvalidNumberFormat and    *)
(* leaves the cursor on the first ',', ']' or '}' after the lead character *)
(* (not consumed), or at the end of the input if there is none; the next   *)
(* next() call then emits the structural token of that character, or       *)
(* end-of-sequence.                                                        *)
(***************************************************************************)
ResyncChars == {",", "]", "}"}

ResyncToken(c) ==
    CASE c = "," -> ElementDelimiter
      [] c = "]" -> Bracket(Close)
      [] c = "}" -> CurlyBracket(Close)

EarlyRejected ==
    /\ Returned
    /\ \/ LeadChar = "+"
       \/ LeadChar = "0" /\ AfterLead # <<>> /\ Head(AfterLead) \in DigitSet

C1_Rests ==
    EarlyRejected =>
        /\ LastItem = Err(InvalidNumberFormat)
        /\ source = From(AfterLead, Until(ResyncChars, AfterLead) + 1)
        /\ source # <<>> => Head(source) \in ResyncChars

C1_Resumes ==
    (EarlyRejected /\ <<source, items, ended>>' # <<source, items, ended>>) =>
        IF source = <<>>
        THEN ended' /\ items' = items
        ELSE /\ items' = Append(items, Ok(ResyncToken(Head(source))))
             /\ source' = Tail(source)
             /\ ~ended'

C1_DrainedReject == [](C1_Rests) /\ [][C1_Resumes]_vars

C1_Witness ==
    /\ EarlyRejected
    /\ Len(prev) - Len(source) >= 2
    /\ source # <<>> /\ Head(source) = "}"

(***************************************************************************)
(* C2.  lex(s) returns Err(e) exactly when some item the Lexer produces    *)
(* over s is an error, and e is then the first error in production order,  *)
(* with no item pulled after it; otherwise it returns Ok of every token in *)
(* production order.  Checked once the Lexer stepped by hand has reached   *)
(* the end of the same input, so that items holds every item.              *)
(***************************************************************************)
Errors == {i \in 1..Len(items) : ~items[i].ok}

C2_FirstErrorOrAll ==
    (ended /\ lexed # NotCalled) =>
        IF Errors = {}
        THEN /\ lexed[1].result = OkVec([i \in 1..Len(items) |-> items[i].val])
             /\ lexed[1].calls = Len(items)
        ELSE /\ lexed[1].result = ErrVec(items[Min(Errors)].err)
             /\ lexed[1].calls = Min(Errors)

C2_Witness ==
    /\ ended /\ lexed # NotCalled
    /\ \E i, j \in Errors : i > 1 /\ i < j /\ items[i].err # items[j].err

(***************************************************************************)
(* C3.  Whitespace between tokens.  The cursor of the Lexer rests on a     *)
(* token boundary of the input between calls (and at the start and the     *)
(* end).  Inserting a run of ASCII whitespace at a boundary never changes  *)
(* what lex returns; removing the run found at a boundary does not in      *)
(* general: "0 1" lexes to two numbers, "01" to InvalidNumberFormat.  The  *)
(* variants are compared with what lex returned for the input itself.      *)
(***************************************************************************)
WhitespaceRuns == Texts(SpaceChars, MaxWs) \ {<<>>}

RunHere == Span(SpaceChars, source)     \* length of the whitespace run at the cursor

RECURSIVE Boundaries(_, _)
Boundaries(text, src) ==
    LET r == next(src)
    IN  IF r.item = None THEN {Len(text) - Len(src), Len(text)}
        ELSE {Len(text) - Len(src)} \cup Boundaries(text, r.source)

Lexed == lexed # NotCalled             \* lex(input) has returned lexed[1]

InsertionTransparent ==
    Lexed =>
        \A w \in WhitespaceRuns :
            lex(Insert(input, Position, w)).result = lexed[1].result

Removed == SubSeq(input, 1, Position) \o From(source, RunHere + 1)

BetweenTokens ==
    /\ Lexed
    /\ lexed[1].result.ok
    /\ items # <<>>
    /\ RunHere > 0
    /\ RunHere < Len(source)

\* the claim as stated: insertion and removal are both transparent
C3_Original ==
    /\ InsertionTransparent
    /\ BetweenTokens => lex(Removed).result = lexed[1].result

\* the amended claim: insertion always, removal when the place stays a boundary
C3_WhitespaceTransparent ==
    /\ InsertionTransparent
    /\ (BetweenTokens /\ Position \in Boundaries(Removed, Removed))
           => lex(Removed).result = lexed[1].result

C3_Witness ==
    /\ BetweenTokens
    /\ Position \in Boundaries(Removed, Removed)
    /\ LastItem.val.kind = "Number"
    /\ Len(lexed[1].result.val) = 2
    /\ \A w \in WhitespaceRuns :
           lex(Insert(input, Position, w)).result = lexed[1].result

(***************************************************************************)
(* Vocabulary of the number properties: the literal the last call read,    *)
(* cut into its parts by the grammar alone.                                *)
(***************************************************************************)
NumberCall == Returned /\ LeadChar \in DigitSet \cup {"-", "+"}

MantissaLen == Span(DigitSet \cup {"."}, AfterLead)

MantissaText == <<LeadChar>> \o SubSeq(AfterLead, 1, MantissaLen)

AfterMantissa == From(AfterLead, MantissaLen + 1)

HasMarker == AfterMantissa # <<>> /\ Head(AfterMantissa) \in {"e", "E"}

ExponentRun ==
    SubSeq(Tail(AfterMantissa), 1,
           Span(DigitSet \cup {"+", "-"}, Tail(AfterMantissa)))

AfterExponent == From(Tail(AfterMantissa), Len(ExponentRun) + 1)

\* a numeral: an optional '-', then digits with at most one '.' among them
\* and at least one digit
ValidNumeral(t) ==
    LET body == IF t # <<>> /\ Head(t) = "-" THEN Tail(t) ELSE t
        points == {i \in 1..Len(body) : body[i] = "."}
    IN  /\ \A i \in 1..Len(body) \ points : body[i] \in DigitSet
        /\ Cardinality(points) <= 1
        /\ Len(body) > Cardinality(points)

LoneOrEmpty(run) == run \in {<<>>, <<"+">>, <<"-">>}

(***************************************************************************)
(* C4.  A number literal whose mantissa text (the lead character and the   *)
(* longest run of digits and '.' after it) is not a valid numeral fails    *)
(* with InvalidNumberFormat.  As stated, "whatever follows the mantissa    *)
(* text"; as amended, unless the literal is not rejected on its lead       *)
(* character and an 'e' or 'E' with an empty or lone-sign exponent run     *)
(* follows: the exponent run is checked before the mantissa is parsed, and *)
(* the error is then InvalidExponentFormat.                                *)
(***************************************************************************)
InvalidMantissa == NumberCall /\ ~ValidNumeral(MantissaText)

ExponentCheckedFirst ==
    /\ ~EarlyRejected
    /\ HasMarker
    /\ LoneOrEmpty(ExponentRun)

C4_Original == InvalidMantissa => LastItem = Err(InvalidNumberFormat)

C4_InvalidMantissa ==
    InvalidMantissa =>
        LastItem = IF ExponentCheckedFirst THEN Err(InvalidExponentFormat)
                   ELSE Err(InvalidNumberFormat)

C4_Witness ==
    /\ InvalidMantissa
    /\ Cardinality({i \in 1..Len(MantissaText) : MantissaText[i] = "."}) = 2
    /\ LastItem = Err(InvalidNumberFormat)

(***************************************************************************)
(* C5.  When the mantissa of a literal that was not rejected on its lead   *)
(* character is followed by 'e' or 'E', the marker is consumed together    *)
(* with the longest following run of digits, '+' and '-'; if that run is   *)
(* empty, "+" or "-", next() fails with InvalidExponentFormat, so no       *)
(* Number token is emitted.                                                *)
(***************************************************************************)
MarkedLiteral == NumberCall /\ ~EarlyRejected /\ HasMarker

C5_ExponentFormat ==
    MarkedLiteral =>
        /\ source = AfterExponent
        /\ LoneOrEmpty(ExponentRun) => LastItem = Err(InvalidExponentFormat)

C5_Witness ==
    /\ MarkedLiteral
    /\ ExponentRun = <<"-">>
    /\ source # <<>>
    /\ LastItem = Err(InvalidExponentFormat)

(***************************************************************************)
(* C6.  For a valid mantissa and an exponent run that is neither empty nor *)
(* a lone sign, a Number token with exponent Some(v) is emitted if and     *)
(* only if the run is an optional single leading '+' or '-' followed by    *)
(* one or more digits whose signed decimal value v lies in                 *)
(* [-32768, 32767]; every other run fails with InvalidNumberFormat.        *)
(***************************************************************************)
RECURSIVE Decimal(_)
Decimal(ds) ==
    IF ds = <<>> THEN 0
    ELSE Decimal(SubSeq(ds, 1, Len(ds) - 1)) * 10
            + (CHOOSE d \in 0..9 : Digits(d) = <<ds[Len(ds)]>>)

Unsigned(run) ==
    IF run # <<>> /\ Head(run) \in {"+", "-"} THEN Tail(run) ELSE run

SignedDigits(run) ==
    /\ Unsigned(run) # <<>>
    /\ \A i \in 1..Len(Unsigned(run)) : Unsigned(run)[i] \in DigitSet

SignedValue(run) ==
    IF Head(run) = "-" THEN 0 - Decimal(Unsigned(run))
    ELSE Decimal(Unsigned(run))

InRange16(run) ==
    SignedDigits(run) /\ SignedValue(run) \in (0 - 32768)..32767

ExponentLiteral ==
    /\ MarkedLiteral
    /\ ValidNumeral(MantissaText)
    /\ ~LoneOrEmpty(ExponentRun)

C6_ExponentRange ==
    ExponentLiteral =>
        IF InRange16(ExponentRun)
        THEN /\ LastItem.ok
             /\ LastItem.val.kind = "Number"
             /\ LastItem.val.number.exponent = Some(SignedValue(ExponentRun))
        ELSE LastItem = Err(InvalidNumberFormat)

C6_Witness ==
    /\ ExponentLiteral
    /\ LastItem.ok
    /\ LastItem.val.number.exponent = Some(0 - 32768)

C6_WitnessRejected ==
    /\ ExponentLiteral
    /\ SignedDigits(ExponentRun)
    /\ SignedValue(ExponentRun) = 32768
    /\ LastItem = Err(InvalidNumberFormat)

(***************************************************************************)
(* C7.  Zero-padding of the exponent and an explicit '+' are redundant:    *)
(* for a mantissa m and a non-empty digit run d, the literals mEd, mE+d    *)
(* and mE0..0d (with or without '+') all lex to the same item, and so do   *)
(* mE-d and mE-0..0d.  The literal the last call read is compared with     *)
(* each of its variants.                                                   *)
(***************************************************************************)
SameSign(run) == IF Head(run) = "-" THEN {<<"-">>} ELSE {<<>>, <<"+">>}

Variant(sg, k) ==
    MantissaText \o <<Head(AfterMantissa)>> \o sg \o Zeros(k)
        \o Unsigned(ExponentRun) \o AfterExponent

PaddableLiteral == MarkedLiteral /\ SignedDigits(ExponentRun)

C7_PaddingRedundant ==
    PaddableLiteral =>
        \A sg \in SameSign(ExponentRun), k \in 0..MaxPad :
            next(Variant(sg, k)).item = Some(LastItem)

C7_Witness ==
    /\ PaddableLiteral
    /\ ExponentRun = <<"+", "0", "0", "7">>
    /\ LastItem.ok
    /\ LastItem.val.number.exponent = Some(7)
    /\ next(Variant(<<>>, 0)).item = Some(LastItem)

(***************************************************************************)
(* C8.  Keyword matching is exact: for an ASCII alphabetic lead character  *)
(* the candidate is that character and every immediately following ASCII   *)
(* alphabetic character; next() returns Boolean(true), Boolean(false) or   *)
(* Null only when the whole candidate is "true", "false" or "null", and    *)
(* UnknownKeyword for every other candidate.  The cursor is left behind    *)
(* the candidate.                                                          *)
(***************************************************************************)
Letters == LowerChars \cup UpperChars

KeywordCall == Returned /\ LeadChar \in Letters

Candidate == SubSeq(Started, 1, Span(Letters, Started))

C8_ExactKeyword ==
    KeywordCall =>
        /\ source = From(Started, Len(Candidate) + 1)
        /\ LastItem =
             IF Candidate = <<"t", "r", "u", "e">> THEN Ok(Boolean(TRUE))
             ELSE IF Candidate = <<"f", "a", "l", "s", "e">> THEN Ok(Boolean(FALSE))
             ELSE IF Candidate = <<"n", "u", "l", "l">> THEN Ok(Null)
             ELSE Err(UnkownKeyword)

C8_Witness ==
    /\ KeywordCall
    /\ Candidate = <<"n", "u", "l", "l", "l">>
    /\ LastItem = Err(UnkownKeyword)
    /\ source # <<>>

(***************************************************************************)
(* C9.  After an opening '"', next() consumes every character up to the    *)
(* next '"' with no escape interpretation; if there is a closing '"' it is *)
(* consumed and a String token holding exactly the characters between the  *)
(* two quotes is emitted; if the input ends first next() fails with        *)
(* UnclosedString.                                                         *)
(***************************************************************************)
StringCall == Returned /\ LeadChar = "\""

Content == SubSeq(AfterLead, 1, Until({"\""}, AfterLead))

Closed == Len(Content) < Len(AfterLead)

C9_StringLiteral ==
    StringCall =>
        IF Closed
        THEN /\ LastItem = Ok(String(Content))
             /\ source = From(AfterLead, Len(Content) + 2)
        ELSE LastItem = Err(UnclosedString)

C9_Witness ==
    /\ StringCall
    /\ Closed
    /\ Content = <<"\\">>
    /\ LastItem = Ok(String(<<"\\">>))

C9_WitnessUnclosed ==
    /\ StringCall
    /\ ~Closed
    /\ Content = <<",", " ">>
    /\ LastItem = Err(UnclosedString)

(***************************************************************************)
(* C10.  For every input made only of '[', ']', '{' and '}', lex returns   *)
(* Ok with exactly one structural token per character, in source order,    *)
(* each with the bracket kind and the Open/Close value of its character.   *)
(***************************************************************************)
BracketsOnly == \A i \in 1..Len(input) : input[i] \in {"[", "]", "{", "}"}

BracketOf(c) ==
    [Blank EXCEPT !.kind = IF c \in {"[", "]"} THEN "Bracket" ELSE "CurlyBracket",
                  !.paren = IF c \in {"[", "{"} THEN "Open" ELSE "Close"]

C10_BracketsOneToOne ==
    (BracketsOnly /\ lexed # NotCalled) =>
        lexed[1].result = OkVec([i \in 1..Len(input) |-> BracketOf(input[i])])

C10_Witness ==
    /\ BracketsOnly /\ lexed # NotCalled
    /\ Len(input) = MaxStruct
    /\ {input[i] : i \in 1..Len(input)} = {"[", "]", "{", "}"}
    /\ Len(lexed[1].result.val) = MaxStruct

(***************************************************************************)
(* C11.  Every next() call that returns an item has consumed at least one  *)
(* character and the cursor never moves backwards, so over an input of n   *)
(* characters the Lexer produces at most n items and, once the input is    *)
(* exhausted, returns end-of-sequence.                                     *)
(***************************************************************************)
CallStep == <<source, items, ended>>' # <<source, items, ended>>

IsSuffix(t, u) == Len(t) <= Len(u) /\ t = From(u, Len(u) - Len(t) + 1)

C11_Consumed == Len(items) <= Position /\ Position <= Len(input)

C11_Forward ==
    /\ IsSuffix(source', source)
    /\ items' # items => Len(items') = Len(items) + 1 /\ Len(source') < Len(source)
    /\ (CallStep /\ source = <<>>) => ended' /\ items' = items

C11_Progress == [](C11_Consumed) /\ [][C11_Forward]_vars

C11_Witness ==
    /\ ended
    /\ Len(items) >= 2
    /\ Len(items) < Len(input)
    /\ LET last == items[Len(items)] IN ~last.ok /\ last.err = UnknownChar

(***************************************************************************)
(* C12.  An error other than the drained early number rejection leaves the *)
(* cursor where the failing sub-scan stopped and does not end the Lexer:   *)
(* UnknownChar consumes only the offending character, UnknownKeyword stops *)
(* at the first non-alphabetic character after the candidate,              *)
(* InvalidExponentFormat and a parse-failure InvalidNumberFormat stop at   *)
(* the first character outside the mantissa and exponent runs; the next    *)
(* call continues from that character and can emit further tokens.         *)
(***************************************************************************)
AfterNumber == IF HasMarker THEN AfterExponent ELSE AfterMantissa

AfterCandidate == From(Started, Len(Candidate) + 1)

PlainError == Returned /\ ~LastItem.ok /\ ~EarlyRejected

StructuralChars == {"[", "]", "{", "}", ",", ":"}

TokenOf(c) ==
    CASE c = "[" -> Bracket(Open)
      [] c = "]" -> Bracket(Close)
      [] c = "{" -> CurlyBracket(Open)
      [] c = "}" -> CurlyBracket(Close)
      [] c = "," -> ElementDelimiter
      [] c = ":" -> KeyDelimiter

C12_Stops ==
    PlainError =>
        /\ LastItem.err = UnknownChar => source = AfterLead
        /\ LastItem.err = UnkownKeyword => source = AfterCandidate
        /\ LastItem.err \in {InvalidExponentFormat, InvalidNumberFormat}
               => source = AfterNumber

C12_Continues ==
    (PlainError /\ CallStep /\ source # <<>> /\ Head(source) \in StructuralChars)
        => /\ items' = Append(items, Ok(TokenOf(Head(source))))
           /\ source' = Tail(source)
           /\ ~ended'

C12_ErrorLeavesCursor == [](C12_Stops) /\ [][C12_Continues]_vars

C12_Witness ==
    /\ Returned
    /\ Len(items) >= 2
    /\ LastItem = Ok(ElementDelimiter)
    /\ LET before == items[Len(items) - 1]
       IN  ~before.ok /\ before.err = UnkownKeyword
    /\ Len(input) - Len(prev) = 4

(***************************************************************************)
(* C13.  next() never panics: every call returns a Token, one of the Error *)
(* variants or end-of-sequence; the unwrap inside read_while is only ever  *)
(* reached when the lookahead holds a character.  lex, which only calls    *)
(* next(), does not panic either.                                          *)
(***************************************************************************)
TokenKinds == {"Bracket", "CurlyBracket", "ElementDelimiter", "KeyDelimiter",
               "Null", "Boolean", "Number", "String"}

ErrorVariants == {"UnexpectedEOF", "UnknownChar", "UnkownKeyword",
                  "UnclosedString", "InvalidNumberFormat",
                  "InvalidExponentFormat"}

WellFormed(item) ==
    IF item.ok THEN item.err = "" /\ item.val.kind \in TokenKinds
    ELSE item.err \in ErrorVariants /\ item.val = Blank

RaisedErrors == {"UnknownChar", "UnkownKeyword", "UnclosedString",
                 "InvalidNumberFormat", "InvalidExponentFormat"}

C14_NoUnexpectedEOF ==
    /\ \A i \in 1..Len(items) : ~items[i].ok => items[i].err \in RaisedErrors
    /\ (Lexed /\ ~lexed[1].result.ok) => lexed[1].result.err \in RaisedErrors

\* an input that ends in the middle of a construct, where an end-of-input
\* error would be raised if any path raised it
C14_Witness ==
    /\ ended
    /\ Len(items) >= 2
    /\ LastItem \in {Err(UnclosedString), Err(InvalidExponentFormat)}
    /\ Lexed /\ ~lexed[1].result.ok

(***************************************************************************)
(* C16.  No leading zeros before further digits: no Number token is        *)
(* emitted for a literal whose digit run begins with '0' immediately       *)
(* followed by another digit, whether the literal starts with that '0' or  *)
(* with a '-' before it.                                                   *)
(***************************************************************************)
DigitRun ==
    IF LeadChar = "-" THEN SubSeq(AfterLead, 1, MantissaLen) ELSE MantissaText

LeadingZero ==
    /\ Len(DigitRun) >= 2
    /\ DigitRun[1] = "0"
    /\ DigitRun[2] \in DigitSet

C16_NoLeadingZeros ==
    (NumberCall /\ LeadingZero) => ~(LastItem.ok /\ LastItem.val.kind = "Number")

(***************************************************************************)
(* C17.  The character that ends a number or keyword scan (the first one   *)
(* outside the mantissa and exponent runs, or outside the candidate) is    *)
(* not consumed by the scan nor by the leading-zero lookahead: the source  *)
(* starts with it when the call returns, and when it is ',', ']' or '}'    *)
(* the next call emits its token, so that nothing is dropped in inputs     *)
(* without whitespace between tokens.                                      *)
(***************************************************************************)
ScanCall == (NumberCall /\ ~EarlyRejected) \/ KeywordCall

AfterScan == IF KeywordCall THEN AfterCandidate ELSE AfterNumber

C17_Kept == ScanCall => source = AfterScan

C17_Emitted ==
    (ScanCall /\ CallStep /\ source # <<>> /\ Head(source) \in ResyncChars)
        => /\ items' = Append(items, Ok(ResyncToken(Head(source))))
           /\ source' = Tail(source)

C17_TerminatorKept == [](C17_Kept) /\ [][C17_Emitted]_vars

\* "0]" and the like: a zero, its lookahead emitted as the next token
C17_Witness ==
    /\ Returned
    /\ Len(items) = 2
    /\ items[1].ok /\ items[1].val.kind = "Number"
    /\ input[1] = "0"
    /\ LastItem = Ok(Bracket(Close))
    /\ Len(input) - Len(source) = 2

(***************************************************************************)
(* C18.  UnclosedString is returned only when the input is exhausted:      *)
(* when next() returns UnclosedString every remaining character has been   *)
(* consumed, every later call returns end-of-sequence, and UnclosedString  *)
(* is the last item the Lexer produces.                                    *)
(***************************************************************************)
Unclosed == {i \in 1..Len(items) : items[i] = Err(UnclosedString)}

C18_Exhausted ==
    \A i \in Unclosed : i = Len(items) /\ source = <<>>

C18_Ends ==
    (Unclosed # {} /\ CallStep) => ended' /\ items' = items /\ source' = <<>>

C18_UnclosedIsLast == [](C18_Exhausted) /\ [][C18_Ends]_vars

C18_Witness ==
    /\ ended
    /\ Len(items) = 2
    /\ Unclosed = {2}
    /\ Len(input) - Len(prev) = 3

====
